---- MODULE Spec2Model ----
(***************************************************************************)
(* midibanso (app.js): key estimation, chord selection, accompaniment      *)
(* rendering (block / bass / arp) and the session state around them.       *)
(*                                                                         *)
(* Conventions                                                             *)
(*   - null / NaN / -Infinity are the empty tuple <<>>; a present value x  *)
(*     is <<x>> where the two must be told apart.                          *)
(*   - key scores are kept times 5, so the 0.2 minor penalty is 1.         *)
(*   - a velocity is the pair <<numerator, denominator>>.                  *)
(*   - els.hold.value is kept in eighths of a beat (0.25 beat = 2), every  *)
(*     such value being an exact double.                                   *)
(***************************************************************************)
EXTENDS Integers, Sequences, FiniteSets, TLC

VARIABLES
    notes, key,                           \* estimateKey: argument, result
    choices, prev, melodyPc, chosen,      \* chooseChord: arguments, result
    note, chord, emitted,                 \* forEach body: melody note, chord, notes pushed
    els, ppq, cfg,                        \* form inputs, midi.header.ppq, values read
    idx, prevChord, holdTicks, accNotes, log,   \* addAccompaniment's loop
    inputBuffer, rollNotes, lastMelodyNotes, lastAccNotes, status, frames, req

keyVars    == <<notes, key>>
chordVars  == <<choices, prev, melodyPc, chosen>>
renderVars == <<note, chord, emitted>>
formVars   == <<els, ppq, cfg>>
walkVars   == <<idx, prevChord, holdTicks, accNotes, log>>
appVars    == <<inputBuffer, rollNotes, lastMelodyNotes, lastAccNotes, status, frames, req>>
vars == <<keyVars, chordVars, renderVars, formVars, walkVars, appVars>>

----------------------------------------------------------------------------
(* Small helpers for JavaScript's arithmetic and arrays *)

Min(a, b) == IF a < b THEN a ELSE b
Max(a, b) == IF a > b THEN a ELSE b

\* Math.round(n/d) for n >= 0, d > 0: halves round up.
Round(n, d) == (2 * n + d) \div (2 * d)

\* Array.prototype.includes
Includes(s, x) == \E i \in DOMAIN s : s[i] = x

\* Array.prototype.reverse
Reverse(s) == [i \in 1..Len(s) |-> s[Len(s) + 1 - i]]

\* Array.prototype.slice(1, -1)
Slice1m1(s) == IF Len(s) <= 2 THEN <<>> ELSE SubSeq(s, 2, Len(s) - 1)

\* All sequences over S of length lo..hi
SeqsOf(S, lo, hi) == UNION {[1..n -> S] : n \in lo..hi}

----------------------------------------------------------------------------
(* Constants of app.js *)

MAJOR_SCALE == <<0, 2, 4, 5, 7, 9, 11>>
MINOR_SCALE == <<0, 2, 3, 5, 7, 8, 10>>

\* Object.entries(CHORDS), in insertion order
CHORDS == << [name |-> "I",  degrees |-> <<0, 4, 7>>],
             [name |-> "IV", degrees |-> <<5, 9, 0>>],
             [name |-> "V",  degrees |-> <<7, 11, 2>>],
             [name |-> "vi", degrees |-> <<9, 0, 4>> ] >>

----------------------------------------------------------------------------
(* estimateKey *)

\* The loop order: tonic 0..11 outside, major then minor inside.
Candidates ==
    [i \in 1..24 |-> [tonic |-> (i - 1) \div 2,
                      mode  |-> IF (i - 1) % 2 = 0 THEN "major" ELSE "minor"]]

ScaleOf(mode) == IF mode = "major" THEN MAJOR_SCALE ELSE MINOR_SCALE

\* new Set(scale.map((p) => (p + tonic) % 12))
ScalePcs(tonic, mode) == {(ScaleOf(mode)[i] + tonic) % 12 : i \in DOMAIN ScaleOf(mode)}

\* pcs.reduce((acc, pc) => acc + (set.has(pc) ? 1 : 0), 0)
RECURSIVE CountIn(_, _, _)
CountIn(pcs, set, i) ==
    IF i > Len(pcs) THEN 0
    ELSE (IF pcs[i] \in set THEN 1 ELSE 0) + CountIn(pcs, set, i + 1)

\* if (mode === "minor") score -= 0.2        (times 5)
PenaltyNone(mode) == 0
Penalty(mode) == IF mode = "minor" THEN 1 ELSE 0

Score(pcs, tonic, mode) == 5 * CountIn(pcs, ScalePcs(tonic, mode), 1) - Penalty(mode)

\* if (score > bestScore); bestScore starts at -Infinity (<<>>)
BetterOrEqual(score, bestScore) == bestScore = <<>> \/ score >= bestScore[1]
Better(score, bestScore) == bestScore = <<>> \/ score > bestScore[1]

RECURSIVE KeyLoop(_, _, _, _)
KeyLoop(pcs, i, bestScore, best) ==
    IF i > Len(Candidates) THEN best
    ELSE LET c == Candidates[i]
             score == Score(pcs, c.tonic, c.mode)
         IN IF Better(score, bestScore)
            THEN KeyLoop(pcs, i + 1, <<score>>, c)
            ELSE KeyLoop(pcs, i + 1, bestScore, best)

estimateKey(ns) ==
    IF Len(ns) = 0 THEN [tonic |-> 0, mode |-> "major"]
    ELSE KeyLoop([i \in DOMAIN ns |-> ns[i].midi % 12], 1, <<>>,
                 [tonic |-> 0, mode |-> "major"])

----------------------------------------------------------------------------
(* buildChords, chooseChord *)

buildChords(k) ==
    [i \in DOMAIN CHORDS |->
        [name |-> CHORDS[i].name,
         pcs  |-> [j \in DOMAIN CHORDS[i].degrees |-> (k.tonic + CHORDS[i].degrees[j]) % 12]]]

\* choices.find((c) => c.pcs.includes(melodyPc)): <<>> for undefined
RECURSIVE Find(_, _, _)
Find(cs, pc, i) ==
    IF i > Len(cs) THEN <<>>
    ELSE IF Includes(cs[i].pcs, pc) THEN <<cs[i]>> ELSE Find(cs, pc, i + 1)

\* prev is <<>> (null) or <<chord>>
chooseChordNoKeep(cs, p, pc) ==
    LET hit == Find(cs, pc, 1) IN IF hit # <<>> THEN hit[1] ELSE cs[1]
chooseChord(cs, p, pc) ==
    IF p # <<>> /\ Includes(p[1].pcs, pc) THEN p[1]
    ELSE LET hit == Find(cs, pc, 1) IN IF hit # <<>> THEN hit[1] ELSE cs[1]

----------------------------------------------------------------------------
(* addAccompaniment: the values read from the form *)

\* parseInt(text, 10) / parseFloat(text): a form value is <<>> when its text
\* is not a number (NaN) and <<n>> when it is the number n.
\* x || d: NaN and 0 are both falsy, so either gives the default d.
OrDefault(x, d) == IF x = <<>> \/ x[1] = 0 THEN d ELSE x[1]

\* Math.min(5, Math.max(2, parseInt(els.octave.value, 10) || 3))
TargetOctave(e) == Min(5, Max(2, OrDefault(e.octave, 3)))

\* Math.min(120, Math.max(20, parseInt(els.velocity.value, 10) || 60))
Velocity(e) == Min(120, Max(20, OrDefault(e.velocity, 60)))

\* Math.max(0.25, Math.min(4, parseFloat(els.hold.value) || 1)), in eighths of a beat
HoldBeats(e) == Max(2, Min(32, OrDefault(e.hold, 8)))

\* x?.value || fallback for the three selects: the empty string is falsy
OrText(x, d) == IF x = "" THEN d ELSE x

\* midi.header.ppq || 480
TicksPerBeat(p) == IF p = 0 THEN 480 ELSE p

ReadConfig(e, p) ==
    [ targetOctave |-> TargetOctave(e),
      base         |-> TargetOctave(e) * 12,
      velocity     |-> Velocity(e),
      holdBeats    |-> HoldBeats(e),
      style        |-> OrText(e.style, "block"),
      bassRhythm   |-> OrText(e.bassRhythm, "quarter"),
      arpDir       |-> OrText(e.arpDir, "up"),
      ticksPerBeat |-> TicksPerBeat(p),
      minHoldTicks |-> Round(HoldBeats(e) * TicksPerBeat(p), 8) ]

----------------------------------------------------------------------------
(* addAccompaniment: the body of notes.forEach *)

\* if (chordNote >= note.midi - 6) chordNote -= 12; if (chordNote < floor) chordNote += 12;
PlaceNoFloor(chordNote, midi, floor) ==
    IF chordNote >= midi - 6 THEN chordNote - 12 ELSE chordNote
Place(chordNote, midi, floor) ==
    LET lowered == IF chordNote >= midi - 6 THEN chordNote - 12 ELSE chordNote
    IN IF lowered < floor THEN lowered + 12 ELSE lowered

\* The rhythm offsets [0, 0.5], [0, 0.75], [0], in quarters of a beat
RhythmOffsets(bassRhythm) ==
    IF bassRhythm = "eighth" THEN <<0, 2>>
    ELSE IF bassRhythm = "sync" THEN <<0, 3>>
    ELSE <<0>>

\* Math.round(offset * beatTicks), offset in quarters of a beat
TickOffset(offset, beatTicks) == Round(offset * beatTicks, 4)

\* if (tickOffset >= maxTicks) return;
SkipsAfter(tickOffset, maxTicks) == tickOffset > maxTicks
Skips(tickOffset, maxTicks) == tickOffset >= maxTicks

RECURSIVE BassLoop(_, _, _, _, _)
BassLoop(offsets, i, n, rootPc, c) ==
    IF i > Len(offsets) THEN <<>>
    ELSE LET beatTicks  == c.ticksPerBeat
             maxTicks   == n.durationTicks
             tickOffset == TickOffset(offsets[i], beatTicks)
             pushed ==
                 IF Skips(tickOffset, maxTicks) THEN <<>>
                 ELSE << [ midi          |-> Place(c.base + rootPc - 12, n.midi, 24),
                           ticks         |-> n.ticks + tickOffset,
                           durationTicks |-> Min(maxTicks - tickOffset, beatTicks),
                           velocity      |-> <<c.velocity, 127>> ] >>
         IN pushed \o BassLoop(offsets, i + 1, n, rootPc, c)

RenderBass(n, ch, c) == BassLoop(RhythmOffsets(c.bassRhythm), 1, n, ch.pcs[1], c)

\* The arpeggio's traversal of the chord's pitch classes
ArpSeqBothEnds(pcs, arpDir) ==
    IF arpDir = "down" THEN Reverse(pcs)
    ELSE IF arpDir = "updown" THEN pcs \o Reverse(pcs)
    ELSE pcs
ArpSeq(pcs, arpDir) ==
    IF arpDir = "down" THEN Reverse(pcs)
    ELSE IF arpDir = "updown" THEN pcs \o Reverse(Slice1m1(pcs))
    ELSE pcs

RenderArp(n, ch, c) ==
    LET seq      == ArpSeq(ch.pcs, c.arpDir)
        arpCount == Max(1, Len(seq))
        dur      == Max(1, n.durationTicks \div arpCount)
    IN [ i \in 1..arpCount |->
           [ midi          |-> Place(c.base + seq[((i - 1) % Len(seq)) + 1], n.midi, 36),
             ticks         |-> n.ticks + (i - 1) * dur,
             durationTicks |-> dur,
             velocity      |-> <<c.velocity, 127>> ] ]

RenderBlock(n, ch, c) ==
    [ i \in DOMAIN ch.pcs |->
        [ midi          |-> Place(c.base + ch.pcs[i], n.midi, 36),
          ticks         |-> n.ticks,
          durationTicks |-> n.durationTicks,
          velocity      |-> <<c.velocity, 127>> ] ]

\* The style branch of the forEach body: the notes pushed for one melody note
RenderNote(n, ch, c) ==
    IF c.style = "bass" THEN RenderBass(n, ch, c)
    ELSE IF c.style = "arp" THEN RenderArp(n, ch, c)
    ELSE RenderBlock(n, ch, c)

\* if (!prevChord || holdTicks >= minHoldTicks)
ReevaluatesAlways(pc, hold, c) == TRUE
Reevaluates(pc, hold, c) == pc = <<>> \/ hold >= c.minHoldTicks

\* prevChord after the choice step of the forEach body
NextChord(cs, pc, hold, n, c) ==
    IF Reevaluates(pc, hold, c) THEN <<chooseChord(cs, pc, n.midi % 12)>> ELSE pc

\* holdTicks after the forEach body
NextHold(pc, hold, n, c) ==
    (IF Reevaluates(pc, hold, c) THEN 0 ELSE hold) + n.durationTicks

\* accNotes after notes.forEach, from note i on
RECURSIVE AccLoop(_, _, _, _, _, _)
AccLoop(ns, i, cs, pc, hold, c) ==
    IF i > Len(ns) THEN <<>>
    ELSE LET pc2 == NextChord(cs, pc, hold, ns[i], c)
         IN RenderNote(ns[i], pc2[1], c)
              \o AccLoop(ns, i + 1, cs, pc2, NextHold(pc, hold, ns[i], c), c)

\* lastAccNotes as addAccompaniment(midi, notes) leaves it
addAccompaniment(ns, e, p) ==
    AccLoop(ns, 1, buildChords(estimateKey(ns)), <<>>, 0, ReadConfig(e, p))

----------------------------------------------------------------------------
(* Melodies and the idle values of the state a specification does not use *)

\* A melody as collectNotes returns it for back-to-back notes from tick 0:
\* pitches ps[i] with durations ds[i], sorted by ticks.
RECURSIVE StartOf(_, _)
StartOf(ds, i) == IF i <= 1 THEN 0 ELSE StartOf(ds, i - 1) + ds[i - 1]

Melody(ps, ds) ==
    [i \in DOMAIN ps |-> [ midi |-> ps[i], ticks |-> StartOf(ds, i),
                           durationTicks |-> ds[i], velocity |-> <<9, 10>> ]]

\* The form as the code's own fallbacks describe it
DefaultEls == [ octave |-> <<3>>, velocity |-> <<60>>, hold |-> <<8>>,
                style |-> "block", bassRhythm |-> "quarter", arpDir |-> "up" ]

KeyIdle    == notes = <<>> /\ key = <<>>
ChordIdle  == choices = <<>> /\ prev = <<>> /\ melodyPc = 0 /\ chosen = <<>>
RenderIdle == note = <<>> /\ chord = <<>> /\ emitted = <<>>
FormIdle   == els = DefaultEls /\ ppq = 0 /\ cfg = <<>>
WalkIdle   == idx = 0 /\ prevChord = <<>> /\ holdTicks = 0 /\ accNotes = <<>> /\ log = <<>>
AppIdle    == /\ inputBuffer = <<>> /\ rollNotes = <<>> /\ lastMelodyNotes = <<>>
              /\ lastAccNotes = <<>> /\ status = "" /\ frames = <<>> /\ req = <<>>

----------------------------------------------------------------------------
(* SpecKey: estimateKey applied to every melody of up to MaxKeyNotes notes *)

MaxKeyNotes == 3
KeyPitches == 60..71

InitKey ==
    /\ notes \in {Melody(ps, [i \in DOMAIN ps |-> 240]) : ps \in SeqsOf(KeyPitches, 0, MaxKeyNotes)}
    /\ key = <<>>
    /\ ChordIdle /\ RenderIdle /\ FormIdle /\ WalkIdle /\ AppIdle

EstimateKey ==
    /\ key = <<>>
    /\ key' = <<estimateKey(notes)>>
    /\ UNCHANGED <<notes, chordVars, renderVars, formVars, walkVars, appVars>>

SpecKey == InitKey /\ [][EstimateKey]_vars

\* The claims' own reading of a key's score (times 5) and of the loop order
AllKeys == [tonic : 0..11, mode : {"major", "minor"}]
ClaimScale(k) ==
    {(d + k.tonic) % 12 :
        d \in IF k.mode = "major" THEN {0, 2, 4, 5, 7, 9, 11} ELSE {0, 2, 3, 5, 7, 8, 10}}
ClaimCount(ns, k) == Cardinality({i \in DOMAIN ns : (ns[i].midi % 12) \in ClaimScale(k)})
ClaimScore(ns, k) == 5 * ClaimCount(ns, k) - (IF k.mode = "minor" THEN 1 ELSE 0)
Rank(k) == 2 * k.tonic + (IF k.mode = "minor" THEN 1 ELSE 0)
CMajor == [tonic |-> 0, mode |-> "major"]

\* C2: estimateKey returns the first (tonic ascending, major before minor)
\* key of maximal score, the score being the number of notes in the key's
\* scale minus 0.2 for a minor key; so the empty melody and any melody over
\* pitch classes {0,4,7} give C major.
C2_FirstKeyOfMaxScore ==
    key # <<>> =>
        /\ \A k \in AllKeys :
              /\ ClaimScore(notes, k) <= ClaimScore(notes, key[1])
              /\ ClaimScore(notes, k) = ClaimScore(notes, key[1]) => Rank(key[1]) <= Rank(k)
        /\ notes = <<>> => key[1] = CMajor
        /\ (\A i \in DOMAIN notes : (notes[i].midi % 12) \in {0, 4, 7}) => key[1] = CMajor

\* A melody whose best score is shared by two keys, the returned one not C major
C2_Witness ==
    /\ key # <<>> /\ Len(notes) = MaxKeyNotes /\ key[1] # CMajor
    /\ \E k \in AllKeys : k # key[1] /\ ClaimScore(notes, k) = ClaimScore(notes, key[1])

\* C10: estimateKey never returns a minor key: the minor key on tonic t scores
\* exactly 0.2 less than the major key on (t+3) mod 12.
C10_NeverMinor ==
    key # <<>> =>
        /\ key[1].mode = "major"
        /\ \A t \in 0..11 :
              LET pcs == [i \in DOMAIN notes |-> notes[i].midi % 12]
              IN Score(pcs, t, "minor") = Score(pcs, (t + 3) % 12, "major") - 1

\* A melody all of whose notes lie in a minor key that the loop meets before
\* any major key holding them all
C10_Witness ==
    /\ key # <<>> /\ notes # <<>>
    /\ \E t \in 0..11 :
          /\ ClaimCount(notes, [tonic |-> t, mode |-> "minor"]) = Len(notes)
          /\ \A u \in 0..t : ClaimCount(notes, [tonic |-> u, mode |-> "major"]) < Len(notes)

----------------------------------------------------------------------------
(* SpecChord: chooseChord applied to every key's table, previous chord and
   melody pitch class *)

InitChord ==
    /\ choices \in {buildChords(k) : k \in AllKeys}
    /\ prev \in {<<>>} \cup {<<choices[i]>> : i \in DOMAIN choices}
    /\ melodyPc \in 0..11
    /\ chosen = <<>>
    /\ KeyIdle /\ RenderIdle /\ FormIdle /\ WalkIdle /\ AppIdle

ChooseChord ==
    /\ chosen = <<>>
    /\ chosen' = <<chooseChord(choices, prev, melodyPc)>>
    /\ UNCHANGED <<choices, prev, melodyPc, keyVars, renderVars, formVars, walkVars, appVars>>

SpecChord == InitChord /\ [][ChooseChord]_vars

\* The claim's chord table on tonic t
ClaimTable(t) ==
    << [name |-> "I",  pcs |-> <<(t + 0) % 12, (t + 4) % 12, (t + 7) % 12>>],
       [name |-> "IV", pcs |-> <<(t + 5) % 12, (t + 9) % 12, (t + 0) % 12>>],
       [name |-> "V",  pcs |-> <<(t + 7) % 12, (t + 11) % 12, (t + 2) % 12>>],
       [name |-> "vi", pcs |-> <<(t + 9) % 12, (t + 0) % 12, (t + 4) % 12>>] >>
PcSet(ch) == {ch.pcs[i] : i \in DOMAIN ch.pcs}
Holding(pc) == {i \in DOMAIN choices : pc \in PcSet(choices[i])}

\* C4: over every key's table [I, IV, V, vi], chooseChord keeps the previous
\* chord when it holds the melody pitch class, else returns the first chord
\* of the table holding it, else the I chord.
C4_ChooseChord ==
    chosen # <<>> =>
        /\ \E t \in 0..11 : choices = ClaimTable(t)
        /\ IF prev # <<>> /\ melodyPc \in PcSet(prev[1])
           THEN chosen[1] = prev[1]
           ELSE IF Holding(melodyPc) # {}
           THEN \E i \in Holding(melodyPc) :
                    /\ chosen[1] = choices[i]
                    /\ \A j \in Holding(melodyPc) : i <= j
           ELSE chosen[1] = choices[1]

\* The previous chord vi is kept although I, earlier in the table, holds the note
C4_Witness ==
    /\ chosen # <<>> /\ prev # <<>>
    /\ prev[1].name = "vi" /\ chosen[1].name = "vi"
    /\ melodyPc \in PcSet(choices[1])

----------------------------------------------------------------------------
(* SpecForm: the form values addAccompaniment reads, for numeric and
   non-numeric texts inside, at and outside the clamp ranges *)

OctaveInputs   == {<<>>} \cup {<<v>> : v \in -1..7}
VelocityInputs == {<<>>} \cup {<<v>> : v \in {-5, 0, 1, 19, 20, 21, 60, 119, 120, 121, 127, 200}}
HoldInputs     == {<<>>} \cup {<<h>> : h \in {-8, 0, 1, 2, 3, 8, 31, 32, 33, 64}}

InitForm ==
    /\ els \in [ octave : OctaveInputs, velocity : VelocityInputs, hold : HoldInputs,
                 style : {"", "bass"}, bassRhythm : {"", "sync"}, arpDir : {"", "down"} ]
    /\ ppq \in {0, 96}
    /\ cfg = <<>>
    /\ KeyIdle /\ ChordIdle /\ RenderIdle /\ WalkIdle /\ AppIdle

ReadForm ==
    /\ cfg = <<>>
    /\ cfg' = <<ReadConfig(els, ppq)>>
    /\ UNCHANGED <<els, ppq, keyVars, chordVars, renderVars, walkVars, appVars>>

SpecForm == InitForm /\ [][ReadForm]_vars

\* The nearest value of lo..hi to v
Nearest(v, lo, hi) == IF v < lo THEN lo ELSE IF v > hi THEN hi ELSE v

\* C8: every numeric form value is clamped to the nearest bound of its range
\* and never replaced by another value: targetOctave to 2..5, velocity to
\* 20..120, minHoldBeats to 0.25..4 (2..32 eighths), the input 0 included.
C8_ClampedNeverReplaced ==
    cfg # <<>> =>
        /\ els.octave # <<>>   => cfg[1].targetOctave = Nearest(els.octave[1], 2, 5)
        /\ els.velocity # <<>> => cfg[1].velocity = Nearest(els.velocity[1], 20, 120)
        /\ els.hold # <<>>     => cfg[1].holdBeats = Nearest(els.hold[1], 2, 32)

----------------------------------------------------------------------------
(* SpecRender: the style branch of the forEach body applied to one melody
   note, one chord and one form *)

MaxDur == 5
RenderPitches == {30, 48, 60, 84}
RenderDurations == (1..MaxDur) \cup {200, 480}
RenderTonics == {0, 7, 10}
RenderSelects == { <<"block", "quarter", "up">>,
                   <<"bass", "quarter", "up">>, <<"bass", "eighth", "up">>, <<"bass", "sync", "up">>,
                   <<"arp", "quarter", "up">>, <<"arp", "quarter", "down">>,
                   <<"arp", "quarter", "updown">> }

InitRender ==
    /\ note \in [ midi : RenderPitches, ticks : {0, 960}, durationTicks : RenderDurations,
                  velocity : {<<9, 10>>} ]
    /\ chord \in {buildChords([tonic |-> t, mode |-> "major"])[i] : t \in RenderTonics, i \in 1..4}
    /\ els \in { [ octave |-> <<o>>, velocity |-> <<60>>, hold |-> <<8>>,
                   style |-> sel[1], bassRhythm |-> sel[2], arpDir |-> sel[3] ] :
                 o \in 2..5, sel \in RenderSelects }
    /\ ppq \in {0, 1, 2, 4}
    /\ emitted = <<>>
    /\ cfg = <<>>
    /\ KeyIdle /\ ChordIdle /\ WalkIdle /\ AppIdle

Render ==
    /\ emitted = <<>>
    /\ emitted' = <<RenderNote(note, chord, ReadConfig(els, ppq))>>
    /\ UNCHANGED <<note, chord, formVars, keyVars, chordVars, walkVars, appVars>>

SpecRender == InitRender /\ [][Render]_vars

\* C1: every accompaniment note emitted for a melody note starts within it:
\* at or after its startTick and before startTick + durationTicks.
C1_StartsWithinMelodyNote ==
    emitted # <<>> =>
        \A i \in DOMAIN emitted[1] :
            /\ emitted[1][i].ticks >= note.ticks
            /\ emitted[1][i].ticks < note.ticks + note.durationTicks

\* The claims' single adjustment pass for a pitch
ClaimPitch(n, melodyPitch, floor) ==
    LET down == n - (IF n >= melodyPitch - 6 THEN 12 ELSE 0)
    IN down + (IF down < floor THEN 12 ELSE 0)

\* C5: block style emits exactly one note per chord pitch class (3), each with
\* the melody note's startTick and durationTicks and the pitch of the single
\* adjustment pass from targetOctave*12 + pc with floor 36.
C5_Block ==
    (emitted # <<>> /\ els.style = "block") =>
        /\ Len(emitted[1]) = 3
        /\ \A i \in 1..3 :
              /\ emitted[1][i].ticks = note.ticks
              /\ emitted[1][i].durationTicks = note.durationTicks
              /\ emitted[1][i].midi = ClaimPitch(els.octave[1] * 12 + chord.pcs[i], note.midi, 36)

\* A block chord for a low melody note: every pitch is lowered, then raised
\* again from below the floor
C5_Witness ==
    /\ emitted # <<>> /\ els.style = "block" /\ note.midi = 30
    /\ Len(emitted[1]) = 3
    /\ \A i \in 1..3 : emitted[1][i].midi = els.octave[1] * 12 + chord.pcs[i]

\* The bass patterns' offsets in quarters of a beat
ClaimOffsets == [ quarter |-> <<0>>, eighth |-> <<0, 2>>, sync |-> <<0, 3>> ]
ClaimBeat == IF ppq = 0 THEN 480 ELSE ppq
\* The integer nearest to q/4 beat in ticks, a half going up
ClaimTick(q) == CHOOSE r \in 0..ClaimBeat : 4 * r - 2 <= q * ClaimBeat /\ q * ClaimBeat < 4 * r + 2

\* C6 as stated: one bass note per rhythm offset whose tick offset
\* offset * ticksPerBeat is strictly below the melody note's duration, starting
\* at melody start + that tick offset.
C6_BassUnroundedOffsets ==
    (emitted # <<>> /\ els.style = "bass") =>
        LET offs == ClaimOffsets[els.bassRhythm]
            kept == SelectSeq(offs, LAMBDA q : q * ClaimBeat < 4 * note.durationTicks)
        IN /\ Len(emitted[1]) = Len(kept)
           /\ \A i \in DOMAIN kept : 4 * (emitted[1][i].ticks - note.ticks) = kept[i] * ClaimBeat

\* C6, amended: the tick offset is offset * ticksPerBeat rounded to the nearest
\* integer (a half rounds up). One bass note per rhythm offset whose tick offset
\* is strictly below the melody note's duration, none for the others; it starts
\* at melody start + tick offset, lasts min(duration - tick offset, ticksPerBeat)
\* and has the chord's root pitch class.
C6_BassRoundedOffsets ==
    (emitted # <<>> /\ els.style = "bass") =>
        LET offs == ClaimOffsets[els.bassRhythm]
            kept == SelectSeq(offs, LAMBDA q : ClaimTick(q) < note.durationTicks)
        IN /\ Len(emitted[1]) = Len(kept)
           /\ \A i \in DOMAIN kept :
                 /\ emitted[1][i].ticks = note.ticks + ClaimTick(kept[i])
                 /\ emitted[1][i].durationTicks =
                        Min(note.durationTicks - ClaimTick(kept[i]), ClaimBeat)
                 /\ emitted[1][i].midi % 12 = chord.pcs[1]

\* Syncopated bass at 2 ticks per beat under a 2-tick note: the second offset,
\* 1.5 ticks, rounds to 2 and is skipped
C6_Witness ==
    /\ emitted # <<>> /\ els.style = "bass" /\ els.bassRhythm = "sync"
    /\ ppq = 2 /\ note.durationTicks = 2
    /\ Len(emitted[1]) = 1

\* The claim's traversal of the chord [p0, p1, p2]
ClaimArpSeq(dir) ==
    IF dir = "down" THEN <<chord.pcs[3], chord.pcs[2], chord.pcs[1]>>
    ELSE IF dir = "updown" THEN <<chord.pcs[1], chord.pcs[2], chord.pcs[3], chord.pcs[2]>>
    ELSE <<chord.pcs[1], chord.pcs[2], chord.pcs[3]>>

\* C7: arp style emits exactly one note per element of the traversal
\* ([p0,p1,p2] up, [p2,p1,p0] down, [p0,p1,p2,p1] up-down), the i-th with the
\* i-th pitch class, at melody start + i*slice for slice ticks, where
\* slice = max(1, floor(durationTicks / length)).
C7_Arp ==
    (emitted # <<>> /\ els.style = "arp") =>
        LET seq   == ClaimArpSeq(els.arpDir)
            slice == IF note.durationTicks \div Len(seq) < 1 THEN 1
                     ELSE note.durationTicks \div Len(seq)
        IN /\ Len(emitted[1]) = Len(seq)
           /\ \A i \in DOMAIN seq :
                 /\ emitted[1][i].midi % 12 = seq[i]
                 /\ emitted[1][i].ticks = note.ticks + (i - 1) * slice
                 /\ emitted[1][i].durationTicks = slice

\* An up-down arpeggio over a 5-tick note: four notes of one tick
C7_Witness ==
    /\ emitted # <<>> /\ els.style = "arp" /\ els.arpDir = "updown"
    /\ note.durationTicks = 5 /\ Len(emitted[1]) = 4
    /\ emitted[1][4].ticks = note.ticks + 3 /\ emitted[1][4].midi % 12 = chord.pcs[2]

----------------------------------------------------------------------------
(* SpecWalk: addAccompaniment run note by note over every melody of up to
   MaxWalkNotes notes.  cfg = <<>> until the function has read its inputs;
   idx counts the melody notes the forEach has handled; log keeps, for each
   handled note, whether the chord was re-evaluated, the chord used and
   holdTicks after the note. *)

MaxWalkNotes == 3
WalkPitches == {60, 62, 66}
WalkDurations == {1, 3}

InitWalk ==
    /\ \E n \in 0..MaxWalkNotes :
          notes \in { Melody(ps, ds) : ps \in [1..n -> WalkPitches], ds \in [1..n -> WalkDurations] }
    /\ els \in { [DefaultEls EXCEPT !.hold = <<h>>, !.style = st] :
                   h \in {2, 8, 12}, st \in {"block", "bass", "arp"} }
    /\ ppq \in {1, 4}
    /\ cfg = <<>>
    /\ key = <<>> /\ choices = <<>>
    /\ prev = <<>> /\ melodyPc = 0 /\ chosen = <<>>
    /\ RenderIdle /\ WalkIdle /\ AppIdle

\* const key = ...; const choices = ...; the form reads; prevChord = null; holdTicks = 0
Begin ==
    /\ cfg = <<>>
    /\ key' = <<estimateKey(notes)>>
    /\ choices' = buildChords(estimateKey(notes))
    /\ cfg' = <<ReadConfig(els, ppq)>>
    /\ prevChord' = <<>>
    /\ holdTicks' = 0
    /\ accNotes' = <<>>
    /\ UNCHANGED <<notes, els, ppq, idx, log, prev, melodyPc, chosen, renderVars, appVars>>

\* One turn of notes.forEach
ForEachNote ==
    /\ cfg # <<>>
    /\ idx < Len(notes)
    /\ LET n  == notes[idx + 1]
           c  == cfg[1]
           pc == NextChord(choices, prevChord, holdTicks, n, c)
           h  == NextHold(prevChord, holdTicks, n, c)
       IN /\ prevChord' = pc
          /\ holdTicks' = h
          /\ accNotes' = accNotes \o RenderNote(n, pc[1], c)
          /\ log' = Append(log, [ reeval    |-> Reevaluates(prevChord, holdTicks, c),
                                  chord     |-> pc[1],
                                  holdTicks |-> h ])
    /\ idx' = idx + 1
    /\ UNCHANGED <<notes, key, chordVars, renderVars, formVars, appVars>>

\* lastAccNotes = accNotes.slice(); return key
End ==
    /\ cfg # <<>>
    /\ idx = Len(notes)
    /\ status = ""
    /\ lastAccNotes' = accNotes
    /\ status' = "returned"
    /\ UNCHANGED <<keyVars, chordVars, renderVars, formVars, walkVars,
                   inputBuffer, rollNotes, lastMelodyNotes, frames, req>>

NextWalk == Begin \/ ForEachNote \/ End

SpecWalk == InitWalk /\ [][NextWalk]_vars

\* The melody duration from note i up to, not including, note j
RECURSIVE Span(_, _)
Span(i, j) == IF i >= j THEN 0 ELSE notes[i].durationTicks + Span(i + 1, j)

\* C3: the chord is re-evaluated at a note only if none is chosen yet or
\* holdTicks >= minHoldTicks; at every other note the chord is the preceding
\* note's, whatever the pitch class.  holdTicks restarts from 0 exactly on
\* re-evaluation and gains the note's duration at every note, so the melody
\* duration between two consecutive re-evaluations is at least minHoldTicks.
C3_HoldWalk ==
    cfg # <<>> =>
        /\ \A i \in DOMAIN log :
              LET before == IF i = 1 THEN 0 ELSE log[i - 1].holdTicks
              IN /\ log[i].reeval => (i = 1 \/ before >= cfg[1].minHoldTicks)
                 /\ ~log[i].reeval => (i > 1 /\ log[i].chord = log[i - 1].chord)
                 /\ log[i].holdTicks =
                        (IF log[i].reeval THEN 0 ELSE before) + notes[i].durationTicks
        /\ \A i, j \in DOMAIN log :
              (/\ i < j /\ log[i].reeval /\ log[j].reeval
               /\ \A m \in (i + 1)..(j - 1) : ~log[m].reeval)
                  => Span(i, j) >= cfg[1].minHoldTicks

\* Three notes: the second keeps the first's chord although the chord does not
\* hold its pitch class, and the third re-evaluates
C3_Witness ==
    /\ cfg # <<>> /\ Len(log) = 3
    /\ ~log[2].reeval /\ log[3].reeval
    /\ (notes[2].midi % 12) \notin PcSet(log[2].chord)
    /\ log[3].chord # log[2].chord

----------------------------------------------------------------------------
(* The session: the file, the roll and the last-generated buffers *)

\* notes.sort((a, b) => a.ticks - b.ticks || a.midi - b.midi), a stable sort
Before(a, b) == a.ticks < b.ticks \/ (a.ticks = b.ticks /\ a.midi < b.midi)

RECURSIVE InsertNote(_, _)
InsertNote(sorted, n) ==
    IF sorted = <<>> THEN <<n>>
    ELSE IF Before(n, Head(sorted)) THEN <<n>> \o sorted
    ELSE <<Head(sorted)>> \o InsertNote(Tail(sorted), n)

RECURSIVE SortNotes(_)
SortNotes(ns) ==
    IF ns = <<>> THEN <<>>
    ELSE InsertNote(SortNotes(SubSeq(ns, 1, Len(ns) - 1)), ns[Len(ns)])

RECURSIVE Flatten(_)
Flatten(tracks) == IF tracks = <<>> THEN <<>> ELSE Head(tracks) \o Flatten(Tail(tracks))

\* A parsed file or a new Midi(): [ppq, tracks], a track being its notes
collectNotes(midi) == SortNotes(Flatten(midi.tracks))

\* els.bars.value and els.grid.value
RollForm == [bars |-> <<1>>, grid |-> <<2>>]
RollSteps == Min(8, Max(1, OrDefault(RollForm.bars, 1))) * Max(1, OrDefault(RollForm.grid, 8))

\* The melody track of buildMelodyFromRoll, from step i (1-based) on; a roll
\* cell is <<>> (null) or <<pitch>>
RECURSIVE RollTrack(_, _, _)
RollTrack(roll, i, stepTicks) ==
    IF i > RollSteps THEN <<>>
    ELSE (IF i \notin DOMAIN roll \/ roll[i] = <<>> THEN <<>>
          ELSE << [ midi |-> roll[i][1], ticks |-> (i - 1) * stepTicks,
                    durationTicks |-> stepTicks, velocity |-> <<9, 10>> ] >>)
         \o RollTrack(roll, i + 1, stepTicks)

buildMelodyFromRoll(roll) ==
    LET ticksPerBeat == TicksPerBeat(480)
        stepTicks    == Round(ticksPerBeat * 4, OrDefault(RollForm.grid, 8))
    IN [ppq |-> 480, tracks |-> <<RollTrack(roll, 1, stepTicks)>>]

\* The session state a handler works on, and the state it leaves
Session == [ inputBuffer |-> inputBuffer, rollNotes |-> rollNotes,
             lastMelodyNotes |-> lastMelodyNotes, lastAccNotes |-> lastAccNotes,
             status |-> status, req |-> req ]

\* req: the melody of the generation request that ran last, with the
\* accompaniment generation gives for it (<<>> before any request)
Requested(ns, p) == << [notes |-> ns, acc |-> addAccompaniment(ns, els, p)] >>

buildOutput(s) ==
    IF s.inputBuffer = <<>> THEN s
    ELSE LET midi == s.inputBuffer[1]
             ns   == collectNotes(midi)
         IN IF Len(ns) = 0
            THEN [s EXCEPT !.status = "No notes found in MIDI.",
                           !.req = Requested(ns, midi.ppq)]
            ELSE [s EXCEPT !.lastMelodyNotes = ns,
                           !.lastAccNotes = addAccompaniment(ns, els, midi.ppq),
                           !.status = "Accompaniment ready.",
                           !.req = Requested(ns, midi.ppq)]

buildOutputFromRoll(s) ==
    LET midi == buildMelodyFromRoll(s.rollNotes)
        ns   == collectNotes(midi)
    IN IF Len(ns) = 0
       THEN [s EXCEPT !.status = "No notes in roll.",
                      !.req = Requested(ns, midi.ppq)]
       ELSE [s EXCEPT !.lastMelodyNotes = ns,
                      !.lastAccNotes = addAccompaniment(ns, els, midi.ppq),
                      !.status = "Accompaniment ready from roll.",
                      !.req = Requested(ns, midi.ppq)]

previewMelody(s) ==
    IF Len(s.lastMelodyNotes) = 0
    THEN [s EXCEPT !.lastMelodyNotes = collectNotes(buildMelodyFromRoll(s.rollNotes))]
    ELSE s

previewAcc(s) ==
    IF Len(s.lastAccNotes) = 0
    THEN (IF s.inputBuffer # <<>> THEN buildOutput(s) ELSE buildOutputFromRoll(s))
    ELSE s

previewAll(s) == previewAcc(previewMelody(s))

\* The handler leaves the session as t
Leaves(t) ==
    /\ inputBuffer' = t.inputBuffer
    /\ rollNotes' = t.rollNotes
    /\ lastMelodyNotes' = t.lastMelodyNotes
    /\ lastAccNotes' = t.lastAccNotes
    /\ status' = t.status
    /\ req' = t.req

----------------------------------------------------------------------------
(* SpecApp: the user's actions on the page *)

MaxFrames == 2
RollPitches == {60, 64}

FileNote(m, t, d) == [midi |-> m, ticks |-> t, durationTicks |-> d, velocity |-> <<8, 10>>]
\* Parsed files: one without notes, one of one track, one of two tracks
Files == { [ppq |-> 480, tracks |-> << <<>> >>],
           [ppq |-> 480, tracks |-> << <<FileNote(67, 0, 480), FileNote(71, 480, 2)>> >>],
           [ppq |-> 96,  tracks |-> << <<FileNote(62, 96, 96)>>, <<FileNote(69, 0, 96)>> >>] }

InitApp ==
    /\ inputBuffer = <<>>
    /\ rollNotes = [i \in 1..RollSteps |-> <<>>]
    /\ lastMelodyNotes = <<>>
    /\ lastAccNotes = <<>>
    /\ status = ""
    /\ frames = <<>>
    /\ req = <<>>
    /\ els \in {[DefaultEls EXCEPT !.style = st] : st \in {"block", "arp"}}
    /\ ppq = 0 /\ cfg = <<>>
    /\ KeyIdle /\ ChordIdle /\ RenderIdle /\ WalkIdle

appRest == <<keyVars, chordVars, renderVars, formVars, walkVars>>

\* loadFile, from the point the file's bytes have arrived
LoadFile ==
    \E f \in Files :
        /\ Leaves([Session EXCEPT !.inputBuffer = <<f>>, !.status = "Loaded"])
        /\ UNCHANGED <<frames, appRest>>

\* The generate button: the build runs in the next animation frame
ClickGenerate ==
    /\ Len(frames) < MaxFrames
    /\ frames' = Append(frames, "buildOutput")
    /\ Leaves([Session EXCEPT !.status = "Generating accompaniment..."])
    /\ UNCHANGED appRest

ClickComposeGenerate ==
    /\ Len(frames) < MaxFrames
    /\ frames' = Append(frames, "buildOutputFromRoll")
    /\ Leaves([Session EXCEPT !.status = "Generating accompaniment from roll..."])
    /\ UNCHANGED appRest

\* The animation frame runs the oldest callback requested
AnimationFrame ==
    /\ frames # <<>>
    /\ frames' = Tail(frames)
    /\ Leaves(IF Head(frames) = "buildOutput" THEN buildOutput(Session)
              ELSE buildOutputFromRoll(Session))
    /\ UNCHANGED appRest

\* A click on the roll cell of a step and a pitch
ClickCell ==
    \E step \in 1..RollSteps, m \in RollPitches :
        /\ Leaves([Session EXCEPT !.rollNotes[step] =
                       IF rollNotes[step] = <<m>> THEN <<>> ELSE <<m>>])
        /\ UNCHANGED <<frames, appRest>>

ClearRoll ==
    /\ Leaves([Session EXCEPT !.rollNotes = [i \in DOMAIN rollNotes |-> <<>>]])
    /\ UNCHANGED <<frames, appRest>>

\* A change of bars, grid or tempo: buildRoll empties the roll
buildRoll ==
    /\ Leaves([Session EXCEPT !.rollNotes = [i \in 1..RollSteps |-> <<>>]])
    /\ UNCHANGED <<frames, appRest>>

ClickPreviewMelody == Leaves(previewMelody(Session)) /\ UNCHANGED <<frames, appRest>>
ClickPreviewAcc    == Leaves(previewAcc(Session)) /\ UNCHANGED <<frames, appRest>>
ClickPreviewAll    == Leaves(previewAll(Session)) /\ UNCHANGED <<frames, appRest>>

NextApp ==
    \/ LoadFile \/ ClickGenerate \/ ClickComposeGenerate \/ AnimationFrame
    \/ ClickCell \/ ClearRoll \/ buildRoll
    \/ ClickPreviewMelody \/ ClickPreviewAcc \/ ClickPreviewAll

SpecApp == InitApp /\ [][NextApp]_vars

\* C9: once a generation request has run, lastMelodyNotes and lastAccNotes are
\* both the result of the most recent request: its melody and the accompaniment
\* generated for it, which for a melody of zero notes is the empty sequence and
\* not the accompaniment of an earlier request.
C9_BuffersOfLastRequest ==
    req # <<>> =>
        /\ lastMelodyNotes = req[1].notes
        /\ lastAccNotes = req[1].acc

====
